---- MODULE Spec2Model ----
(***************************************************************************)
(* A model of fp_newspapers.py (NewspaperBot): the per-target pipeline     *)
(* search -> match -> validate date -> resolve -> fetch over the two       *)
(* sites Frontpages and Zougla, the date validator and the file fetcher.   *)
(*                                                                         *)
(* Text is a sequence of one-character strings ("Ta" is <<"T", "a">>); the *)
(* Python value None is the one-element sequence None below, which no text *)
(* equals because its element is not one character.                        *)
(***************************************************************************)
EXTENDS Integers, Sequences, FiniteSets

VARIABLES
    now,                \* datetime.now().date(): [year, month, day]
    pc,                 \* position of run(): "start", "frontpages", "zougla", "assemble", "finished", "aborted", "crashed", "idle"
    NEWSPAPER_LIST,     \* the names read from the CSV file, in file order
    i,                  \* index in NEWSPAPER_LIST of the target being processed
    downloaded_images,  \* self.downloaded_images: the saved paths, in append order
    image_target,       \* for each entry of downloaded_images, the list index it was saved for
    calls,              \* the adapter invocations for the target searched last, in order
    fetches,            \* the requests.get issued for that target, in order
    written,            \* every file opened for writing in today_dir so far, in order
    searched,           \* every adapter invocation of the run so far: <<list index, site>>, in order
    pdf,                \* what generate_pdf did: which images opened, the saves issued, the documents left
    date_in,            \* the argument of a _check_date_generic call
    date_out,           \* what that call parsed and returned
    file_in,            \* the arguments of a _download_file call
    file_out,           \* what that call wrote and returned
    norm_in,            \* two texts handed to _normalize_text, and how the second differs from the first
    norm_out,           \* what the two calls returned
    site_in,            \* the arguments of one adapter call, and the pages the site serves
    site_out            \* what that call did

vars == <<now, pc, NEWSPAPER_LIST, i, downloaded_images, image_target, calls,
          fetches, written, searched, pdf, date_in, date_out, file_in, file_out,
          norm_in, norm_out, site_in, site_out>>
runVars == <<pc, NEWSPAPER_LIST, i, downloaded_images, image_target, calls,
             fetches, written, searched, pdf>>
dateVars == <<date_in, date_out>>
fileVars == <<file_in, file_out>>
normVars == <<norm_in, norm_out>>
siteVars == <<site_in, site_out>>

----------------------------------------------------------------------------
(* Text helpers *)

None == <<"None">>

DigitChars == <<"0", "1", "2", "3", "4", "5", "6", "7", "8", "9">>

DigitSet == {DigitChars[k] : k \in 1..Len(DigitChars)}

\* \d of the re module, on the ASCII digits
IsDigit(c) == c \in DigitSet

\* \s of the re module and the characters str.strip() removes
IsSpace(c) == c \in {" ", "\t", "\n"}

DigitVal(c) == (CHOOSE k \in 1..Len(DigitChars) : DigitChars[k] = c) - 1

\* int() of a text of digits
RECURSIVE ToInt(_)
ToInt(s) ==
    IF s = <<>> THEN 0
    ELSE 10 * ToInt(SubSeq(s, 1, Len(s) - 1)) + DigitVal(s[Len(s)])

\* str.strip()
RECURSIVE LStrip(_)
LStrip(s) ==
    IF s # <<>> /\ IsSpace(s[1]) THEN LStrip(Tail(s)) ELSE s

RECURSIVE RStrip(_)
RStrip(s) ==
    IF s # <<>> /\ IsSpace(s[Len(s)]) THEN RStrip(SubSeq(s, 1, Len(s) - 1)) ELSE s

Strip(s) == LStrip(RStrip(s))

\* str.endswith(suffix)
EndsWith(s, suffix) ==
    /\ Len(s) >= Len(suffix)
    /\ SubSeq(s, Len(s) - Len(suffix) + 1, Len(s)) = suffix

\* the text s[from..], or <<>> past the end
From(s, from) == SubSeq(s, from, Len(s))

\* str.startswith(prefix) at position p
StartsAt(s, p, prefix) ==
    /\ p + Len(prefix) - 1 <= Len(s)
    /\ SubSeq(s, p, p + Len(prefix) - 1) = prefix

----------------------------------------------------------------------------
(* Characters.  An ASCII character stands for itself; a character outside  *)
(* ASCII is written by its code point: "U+00E9" is e with acute, "U+0301"  *)
(* the combining acute accent, "U+03B1" alpha, "U+0391" capital alpha,     *)
(* "U+03AC" alpha with tonos, "U+0386" capital alpha with tonos, "U+03A3"   *)
(* capital sigma, "U+03C3" sigma, "U+03C2" final sigma.                    *)

LowerChars ==
    <<"a", "b", "c", "d", "e", "f", "g", "h", "i", "j", "k", "l", "m",
      "n", "o", "p", "q", "r", "s", "t", "u", "v", "w", "x", "y", "z">>

UpperChars ==
    <<"A", "B", "C", "D", "E", "F", "G", "H", "I", "J", "K", "L", "M",
      "N", "O", "P", "Q", "R", "S", "T", "U", "V", "W", "X", "Y", "Z">>

LowerSet == {LowerChars[k] : k \in 1..Len(LowerChars)}

UpperSet == {UpperChars[k] : k \in 1..Len(UpperChars)}

IsAsciiLower(c) == c \in LowerSet

IsAsciiUpper(c) == c \in UpperSet

\* the letters outside ASCII that the model's texts use
OtherLetters ==
    {"U+00E9", "U+00C9", "U+03B1", "U+0391", "U+03AC", "U+0386",
     "U+03A3", "U+03C3", "U+03C2"}

\* unicodedata.category(c) == 'Mn'
IsMark(c) == c = "U+0301"

\* \w of the re module on str: a letter, a digit or the underscore
IsWord(c) ==
    IsAsciiLower(c) \/ IsAsciiUpper(c) \/ IsDigit(c) \/ c = "_" \/ c \in OtherLetters

\* str.lower() of one character
LowerChar(c) ==
    IF IsAsciiUpper(c) THEN LowerChars[CHOOSE k \in 1..Len(UpperChars) : UpperChars[k] = c]
    ELSE IF c = "U+00C9" THEN "U+00E9"
    ELSE IF c = "U+0391" THEN "U+03B1"
    ELSE IF c = "U+0386" THEN "U+03AC"
    ELSE IF c = "U+03A3" THEN "U+03C3"
    ELSE c

\* the Unicode property Cased: the letters of the model's texts
IsCased(c) == IsAsciiLower(c) \/ IsAsciiUpper(c) \/ c \in OtherLetters

\* the Unicode property Case_Ignorable, on the characters of the model's texts
IsCaseIgnorable(c) == IsMark(c) \/ c \in {".", "'", ":"}

\* unicodedata.normalize('NFD', c) of one character
Decompose(c) ==
    IF c = "U+00E9" THEN <<"e", "U+0301">>
    ELSE IF c = "U+00C9" THEN <<"E", "U+0301">>
    ELSE IF c = "U+03AC" THEN <<"U+03B1", "U+0301">>
    ELSE IF c = "U+0386" THEN <<"U+0391", "U+0301">>
    ELSE <<c>>

\* the class [a-z0-9\sα-ω] of _normalize_text
IsNameChar(c) ==
    IsAsciiLower(c) \/ IsDigit(c) \/ IsSpace(c) \/ c \in {"U+03B1", "U+03C2", "U+03C3"}

\* the class [\w\-_\.] of _download_file
IsFileChar(c) == IsWord(c) \/ c \in {"-", "_", "."}

----------------------------------------------------------------------------
(* The regular expressions of _check_date_generic and _search_zougla.      *)
(* Every intermediate value is an operator argument, so that each          *)
(* expression is written, and evaluated, once.                             *)

\* the number of characters a greedy \d{1,max} takes at position p
RECURSIVE DigitRun(_, _, _)
DigitRun(s, p, max) ==
    IF max = 0 \/ p > Len(s) \/ ~IsDigit(s[p]) THEN 0
    ELSE 1 + DigitRun(s, p + 1, max - 1)

\* the position after a greedy \s* at position p
RECURSIVE SkipSpace(_, _)
SkipSpace(s, p) ==
    IF p <= Len(s) /\ IsSpace(s[p]) THEN SkipSpace(s, p + 1) ELSE p

\* a / at position q and the \s* after it: the position after both, or 0
SlashThenSpace(s, q) ==
    IF q <= Len(s) /\ s[q] = "/" THEN SkipSpace(s, q + 1) ELSE 0

\* \s*/\s* at position p: the position after it, or 0 when it does not match
SlashAt(s, p) == SlashThenSpace(s, SkipSpace(s, p))

\* the groups of (\d{1,2})\s*/\s*(\d{1,2}) and the position after the match
ShortGroups(s, p, n1, q, n2) ==
    IF n2 = 0 THEN <<>>
    ELSE <<SubSeq(s, p, p + n1 - 1), SubSeq(s, q, q + n2 - 1), q + n2>>

ShortSecond(s, p, n1, q) ==
    ShortGroups(s, p, n1, q, IF q = 0 THEN 0 ELSE DigitRun(s, q, 2))

ShortFirst(s, p, n1) ==
    ShortSecond(s, p, n1, IF n1 = 0 THEN 0 ELSE SlashAt(s, p + n1))

\* (\d{1,2})\s*/\s*(\d{1,2}) at position p: the groups, or <<>>.  Taking one
\* digit where two stand never helps: the next character is then a digit,
\* which neither \s nor / matches, so the greedy choice is the only match.
ShortAt(s, p) == ShortFirst(s, p, DigitRun(s, p, 2))

\* re.search(r'(\d{1,2})\s*/\s*(\d{1,2})', s): the groups of the leftmost match
RECURSIVE SearchShortFrom(_, _)
RECURSIVE ShortOrNext(_, _, _)
SearchShortFrom(s, p) ==
    IF p > Len(s) THEN <<>> ELSE ShortOrNext(s, p, ShortAt(s, p))

ShortOrNext(s, p, m) ==
    IF m # <<>> THEN m ELSE SearchShortFrom(s, p + 1)

match_short(s) == SearchShortFrom(s, 1)

\* the groups of (\d{1,2})\s*/\s*(\d{1,2})\s*/\s*(\d{4})
LongGroups(s, m, q, n3) ==
    IF n3 < 4 THEN <<>> ELSE <<m[1], m[2], SubSeq(s, q, q + 3)>>

LongYear(s, m, q) ==
    LongGroups(s, m, q, IF q = 0 THEN 0 ELSE DigitRun(s, q, 4))

LongSlash(s, m) ==
    LongYear(s, m, IF m = <<>> THEN 0 ELSE SlashAt(s, m[3]))

\* (\d{1,2})\s*/\s*(\d{1,2})\s*/\s*(\d{4}) at position p: the groups, or <<>>
LongAt(s, p) == LongSlash(s, ShortAt(s, p))

\* re.search(r'(\d{1,2})\s*/\s*(\d{1,2})\s*/\s*(\d{4})', s)
RECURSIVE SearchLongFrom(_, _)
RECURSIVE LongOrNext(_, _, _)
SearchLongFrom(s, p) ==
    IF p > Len(s) THEN <<>> ELSE LongOrNext(s, p, LongAt(s, p))

LongOrNext(s, p, m) ==
    IF m # <<>> THEN m ELSE SearchLongFrom(s, p + 1)

match_long(s) == SearchLongFrom(s, 1)

\* (\d{2}/\d{2}/\d{4}) at position p
ZouglaDateAt(s, p) ==
    /\ p + 9 <= Len(s)
    /\ \A k \in {0, 1, 3, 4, 6, 7, 8, 9} : IsDigit(s[p + k])
    /\ \A k \in {2, 5} : s[p + k] = "/"

\* re.search(r'(\d{2}/\d{2}/\d{4})', s): group(1), or None
RECURSIVE SearchZouglaDateFrom(_, _)
SearchZouglaDateFrom(s, p) ==
    IF p > Len(s) THEN None
    ELSE IF ZouglaDateAt(s, p) THEN SubSeq(s, p, p + 9)
    ELSE SearchZouglaDateFrom(s, p + 1)

date_match(s) == SearchZouglaDateFrom(s, 1)

----------------------------------------------------------------------------
(* Calendar dates: datetime(year, month, day).date() *)

IsLeap(y) == (y % 4 = 0 /\ y % 100 # 0) \/ y % 400 = 0

DaysInMonth(y, m) ==
    IF m = 2 THEN (IF IsLeap(y) THEN 29 ELSE 28)
    ELSE IF m \in {4, 6, 9, 11} THEN 30
    ELSE 31

\* datetime(y, m, d) raises ValueError unless this holds
ValidDate(y, m, d) ==
    /\ y >= 1 /\ y <= 9999
    /\ m >= 1 /\ m <= 12
    /\ d >= 1 /\ d <= DaysInMonth(y, m)

MkDate(y, m, d) == [year |-> y, month |-> m, day |-> d]

\* paper_date while it is None
NoDate == [year |-> 0, month |-> 0, day |-> 0]

----------------------------------------------------------------------------
(* _check_date_generic *)

\* the short branch without its December rule
short_year_current(month, today) == today.year

\* The year the short branch gives a D/M date: the current one, the one
\* before for a December date read in January.
short_year(month, today) ==
    IF month = 12 /\ today.month = 1 THEN today.year - 1 ELSE today.year

\* datetime(year, month, day).date(), or the ValueError it raises
make_date(year, month, day) ==
    IF ValidDate(year, month, day)
    THEN [raised |-> FALSE, date |-> MkDate(year, month, day)]
    ELSE [raised |-> TRUE, date |-> NoDate]

\* the short branch: day, month = map(int, match_short.groups())
short_date(day, month, today) ==
    make_date(short_year(month, today), month, day)

\* the long branch, taken only when the short pattern did not match
long_date(ml) ==
    IF ml # <<>> THEN make_date(ToInt(ml[3]), ToInt(ml[2]), ToInt(ml[1]))
    ELSE [raised |-> FALSE, date |-> NoDate]

date_branches(ms, clean_text, today) ==
    IF ms # <<>> THEN short_date(ToInt(ms[1]), ToInt(ms[2]), today)
    ELSE long_date(match_long(clean_text))

parse_clean(clean_text, today) ==
    date_branches(match_short(clean_text), clean_text, today)

\* paper_date as the try block computes it, and whether datetime() raised
paper_date(date_text, today) == parse_clean(Strip(date_text), today)

\* is_today, once paper_date is known
date_verdict(parsed, today) ==
    IF parsed.raised THEN "ValueError"
    ELSE IF parsed.date = NoDate THEN "True"
    ELSE IF parsed.date = today THEN "True"
    ELSE "False"

\* What the try block does: "True", "False", or "ValueError" when it raises.
check_date_try(date_text, today) ==
    IF date_text = None \/ date_text = <<>> THEN "True"
    ELSE date_verdict(paper_date(date_text, today), today)

\* except Exception: return True
except_true(outcome) ==
    IF outcome = "ValueError" THEN "True" ELSE outcome

\* _check_date_generic: "True" or "False"
_check_date_generic(date_text, today) ==
    except_true(check_date_try(date_text, today))

----------------------------------------------------------------------------
(* _normalize_text *)

\* the nearest position at or before j, or at or after j, whose character is
\* not case-ignorable; 0 or Len(s) + 1 when there is none
RECURSIVE BeforeIgnorable(_, _)
BeforeIgnorable(s, j) ==
    IF j >= 1 /\ IsCaseIgnorable(s[j]) THEN BeforeIgnorable(s, j - 1) ELSE j

RECURSIVE AfterIgnorable(_, _)
AfterIgnorable(s, j) ==
    IF j <= Len(s) /\ IsCaseIgnorable(s[j]) THEN AfterIgnorable(s, j + 1) ELSE j

CasedAt(s, j) == j >= 1 /\ j <= Len(s) /\ IsCased(s[j])

\* The capital sigma at position k is in final position: a cased character
\* precedes it and none follows it, case-ignorable characters apart.
FinalSigma(s, k) ==
    /\ CasedAt(s, BeforeIgnorable(s, k - 1))
    /\ ~CasedAt(s, AfterIgnorable(s, k + 1))

\* str.lower() of the character at position k: a capital sigma becomes a
\* final sigma in final position
lower_at(s, k) ==
    IF s[k] = "U+03A3"
    THEN (IF FinalSigma(s, k) THEN "U+03C2" ELSE "U+03C3")
    ELSE LowerChar(s[k])

RECURSIVE LowerFrom(_, _)
LowerFrom(s, k) ==
    IF k > Len(s) THEN <<>> ELSE <<lower_at(s, k)>> \o LowerFrom(s, k + 1)

\* str.lower()
Lower(s) == LowerFrom(s, 1)

\* unicodedata.normalize('NFD', text)
RECURSIVE NFD(_)
NFD(s) ==
    IF s = <<>> THEN <<>> ELSE Decompose(s[1]) \o NFD(Tail(s))

IsNotMark(c) == ~IsMark(c)

\* lower, strip, drop the combining marks, keep [a-z0-9\sα-ω], strip
normalize_steps(text) ==
    Strip(SelectSeq(SelectSeq(NFD(Strip(Lower(text))), IsNotMark), IsNameChar))

_normalize_text(text) ==
    IF text = None \/ text = <<>> THEN <<>> ELSE normalize_steps(text)

----------------------------------------------------------------------------
(* _download_file *)

\* self.today_dir
TodayDir == <<"o", "u", "t">>

\* how one download can end: "ok"; "request_error" when requests.get or
\* raise_for_status raises; "stream_error" when iter_content or f.write
\* raises after the file was opened
Outcomes == {"ok", "request_error", "stream_error"}

IsNotSpace(c) == ~IsSpace(c)

\* a sanitizer that removes the whitespace and nothing else
clean_name_spaces_only(filename) == SelectSeq(filename, IsNotSpace)

\* clean_name = re.sub(r'[^\w\-_\.]', '', filename)
clean_name(filename) == SelectSeq(filename, IsFileChar)

\* open(save_path, 'wb') raises when save_path names a directory
IsDirectoryName(name) == name \in {<<>>, <<".">>, <<".", ".">>}

\* os.path.join(self.today_dir, clean_name)
save_path(name) == TodayDir \o <<"/">> \o name

\* the file opened for writing (None when none was) and the value returned
save(name, outcome) ==
    IF outcome = "request_error" \/ IsDirectoryName(name)
    THEN [written |-> None, path |-> None]
    ELSE IF outcome = "stream_error"
    THEN [written |-> name, path |-> None]
    ELSE [written |-> name, path |-> save_path(name)]

_download_file(url, filename, outcome) == save(clean_name(filename), outcome)

----------------------------------------------------------------------------
(* URLs.  urljoin(base, url) of urllib.parse, with urlparse, urlsplit and  *)
(* urlunparse as it calls them.  A parsed URL is a record of its scheme,   *)
(* netloc, path, params, query and fragment.  The texts are over the       *)
(* model's characters; a netloc with brackets, for which urlsplit raises,  *)
(* is not among the references of the index and detail pages here.         *)

\* self.url_frontpages = "https://www.frontpages.gr/"
url_frontpages ==
    <<"h", "t", "t", "p", "s", ":", "/", "/", "w", "w", "w", ".", "f", "r",
      "o", "n", "t", "p", "a", "g", "e", "s", ".", "g", "r", "/">>

\* self.url_zougla = "https://www.zougla.gr/newspapers/"
url_zougla ==
    <<"h", "t", "t", "p", "s", ":", "/", "/", "w", "w", "w", ".", "z", "o",
      "u", "g", "l", "a", ".", "g", "r", "/", "n", "e", "w", "s", "p", "a",
      "p", "e", "r", "s", "/">>

\* s.find(c, k): the first position of c in s from k on, Len(s) + 1 if none
RECURSIVE IndexFrom(_, _, _)
IndexFrom(s, c, k) ==
    IF k > Len(s) THEN k
    ELSE IF s[k] = c THEN k
    ELSE IndexFrom(s, c, k + 1)

\* s.rfind(c, 0, k + 1): the last position of c in s up to k, 0 if none
RECURSIVE LastIndexUpTo(_, _, _)
LastIndexUpTo(s, c, k) ==
    IF k = 0 THEN 0
    ELSE IF s[k] = c THEN k
    ELSE LastIndexUpTo(s, c, k - 1)

\* s.split(c, 1)[0]
Before(s, c) == SubSeq(s, 1, IndexFrom(s, c, 1) - 1)

\* s.split(c, 1)[1], '' when c is not in s
After(s, c) == From(s, IndexFrom(s, c, 1) + 1)

\* path.split('/')
RECURSIVE Split(_)
split_at(s, p) ==
    IF p > Len(s) THEN <<s>>
    ELSE <<SubSeq(s, 1, p - 1)>> \o Split(From(s, p + 1))

Split(s) == split_at(s, IndexFrom(s, "/", 1))

\* '/'.join(segments)
RECURSIVE Join(_)
Join(segments) ==
    IF segments = <<>> THEN <<>>
    ELSE IF Len(segments) = 1 THEN segments[1]
    ELSE segments[1] \o <<"/">> \o Join(Tail(segments))

IsNotTabOrNewline(c) == c \notin {"\t", "\n"}

\* urlsplit: url.lstrip(_WHATWG_C0_CONTROL_OR_SPACE), then the tabs and
\* newlines are removed
url_clean(url) == SelectSeq(LStrip(url), IsNotTabOrNewline)

\* scheme_chars
IsSchemeChar(c) ==
    IsAsciiLower(c) \/ IsAsciiUpper(c) \/ IsDigit(c) \/ c \in {"+", "-", "."}

\* the position of the first colon when the text before it is a scheme, 0
\* otherwise
colon_of_scheme(url, colon) ==
    IF /\ 1 < colon /\ colon <= Len(url)
       /\ IsAsciiLower(url[1]) \/ IsAsciiUpper(url[1])
       /\ \A k \in 1..(colon - 1) : IsSchemeChar(url[k])
    THEN colon ELSE 0

scheme_end(url) == colon_of_scheme(url, IndexFrom(url, ":", 1))

\* url[:i].lower() of a scheme
lower_scheme(scheme) == [k \in 1..Len(scheme) |-> LowerChar(scheme[k])]

Min(a, b) == IF a < b THEN a ELSE b

\* _splitnetloc(url, 2): the netloc ends at the first '/', '?' or '#'
netloc_end(url) ==
    Min(IndexFrom(url, "/", 3), Min(IndexFrom(url, "?", 3), IndexFrom(url, "#", 3)))

has_netloc(url) == StartsAt(url, 1, <<"/", "/">>)

netloc_of(url) ==
    IF has_netloc(url) THEN SubSeq(url, 3, netloc_end(url) - 1) ELSE <<>>

after_netloc(url) ==
    IF has_netloc(url) THEN From(url, netloc_end(url)) ELSE url

\* _splitparams(url): the position of the ';' that starts the params of the
\* last segment, Len(url) + 1 when it has none
params_at(url) == IndexFrom(url, ";", LastIndexUpTo(url, "/", Len(url)) + 1)

\* the fragment, the query and the params are split off, in this order
parse_parts(scheme, netloc, url, rest) ==
    [scheme |-> scheme, netloc |-> netloc,
     path |-> SubSeq(rest, 1, params_at(rest) - 1),
     params |-> From(rest, params_at(rest) + 1),
     query |-> After(Before(url, "#"), "?"),
     fragment |-> After(url, "#")]

parse_hier(scheme, netloc, url) ==
    parse_parts(scheme, netloc, url, Before(Before(url, "#"), "?"))

parse_netloc(scheme, url) == parse_hier(scheme, netloc_of(url), after_netloc(url))

\* scheme, url = url[:i].lower(), url[i+1:]
split_scheme(url, scheme, colon) ==
    IF colon = 0 THEN parse_netloc(scheme, url)
    ELSE parse_netloc(lower_scheme(SubSeq(url, 1, colon - 1)), From(url, colon + 1))

urlsplit(url, scheme) == split_scheme(url, scheme, scheme_end(url))

\* urlparse(url, scheme), for the schemes of uses_params
urlparse(url, scheme) == urlsplit(url_clean(url), scheme)

\* urlunsplit of a scheme of uses_netloc: '//' and the netloc, a '/' before
\* a path that has none
with_netloc(netloc, url) ==
    IF netloc # <<>> \/ ~StartsAt(url, 1, <<"/", "/">>)
    THEN <<"/", "/">> \o netloc
         \o (IF url # <<>> /\ url[1] # "/" THEN <<"/">> \o url ELSE url)
    ELSE url

with_scheme(scheme, url) ==
    IF scheme # <<>> THEN scheme \o <<":">> \o url ELSE url

\* a part that is not empty follows its mark: ';' params, '?' query,
\* '#' fragment
with_part(url, mark, part) ==
    IF part # <<>> THEN url \o <<mark>> \o part ELSE url

urlunparse(p) ==
    with_part(
        with_part(
            with_scheme(p.scheme,
                        with_netloc(p.netloc, with_part(p.path, ";", p.params))),
            "?", p.query),
        "#", p.fragment)

\* base_parts = bpath.split('/'), without the last part unless it is empty
drop_last_part(parts) ==
    IF parts[Len(parts)] # <<>> THEN SubSeq(parts, 1, Len(parts) - 1) ELSE parts

base_parts(bpath) == drop_last_part(Split(bpath))

IsNotEmpty(segment) == segment # <<>>

\* segments[1:-1] = filter(None, segments[1:-1])
filter_inner(segments) ==
    IF Len(segments) < 2 THEN segments
    ELSE <<segments[1]>>
         \o SelectSeq(SubSeq(segments, 2, Len(segments) - 1), IsNotEmpty)
         \o <<segments[Len(segments)]>>

\* segments of the path to resolve: of an absolute path its own, of a
\* relative path those of the base before it
path_segments(bpath, path) ==
    IF path # <<>> /\ path[1] = "/" THEN Split(path)
    ELSE filter_inner(base_parts(bpath) \o Split(path))

\* resolved_path: '..' removes the segment before it, '.' is skipped
RECURSIVE resolve_from(_, _, _)
resolve_segment(segments, k, resolved, segment) ==
    IF segment = <<".", ".">>
    THEN resolve_from(segments, k + 1,
                      IF resolved = <<>> THEN resolved
                      ELSE SubSeq(resolved, 1, Len(resolved) - 1))
    ELSE IF segment = <<".">>
    THEN resolve_from(segments, k + 1, resolved)
    ELSE resolve_from(segments, k + 1, Append(resolved, segment))

resolve_from(segments, k, resolved) ==
    IF k > Len(segments) THEN resolved
    ELSE resolve_segment(segments, k, resolved, segments[k])

\* a path that ends with a dot segment ends with '/'
close_path(segments, resolved) ==
    IF segments[Len(segments)] \in {<<".">>, <<".", ".">>}
    THEN Append(resolved, <<>>)
    ELSE resolved

resolved_path(segments) == close_path(segments, resolve_from(segments, 1, <<>>))

\* '/'.join(resolved_path) or '/'
or_root(path) == IF path = <<>> THEN <<"/">> ELSE path

joined_path(bpath, path) ==
    or_root(Join(resolved_path(path_segments(bpath, path))))

\* after both are parsed: a reference of another scheme is returned as it
\* was given; one with a netloc keeps its own path; one without path and
\* params takes those of the base; any other path is resolved against the
\* path of the base.  (The scheme of both bases, https, is in uses_relative
\* and uses_netloc.)
join_parsed(url, b, u) ==
    IF u.scheme # b.scheme THEN url
    ELSE IF u.netloc # <<>> THEN urlunparse(u)
    ELSE IF u.path = <<>> /\ u.params = <<>>
    THEN urlunparse([b EXCEPT !.query = IF u.query # <<>> THEN u.query ELSE b.query,
                              !.fragment = u.fragment])
    ELSE urlunparse([u EXCEPT !.netloc = b.netloc,
                              !.path = joined_path(b.path, u.path)])

join_base(url, b) == join_parsed(url, b, urlparse(url, b.scheme))

\* urljoin(base, url)
urljoin(base, url) ==
    IF base = <<>> THEN url
    ELSE IF url = <<>> THEN base
    ELSE join_base(url, urlparse(base, <<>>))

----------------------------------------------------------------------------
(* The two sites.  An index page is what page.goto and the locators give   *)
(* to one adapter call: whether navigation or a DOM access raises, and the *)
(* entries in document order.  A date element is the text the adapter      *)
(* reads and, for the properties, the day, month and year written in it.   *)

\* locator(...).count() == 0
NoElement == <<"NoElement">>

NoDateElement ==
    [kind |-> "absent", day |-> 0, month |-> 0, year |-> 0, text |-> None]

LowResSuffix == <<"3", "0", "0", ".", "j", "p", "g">>

HighResSuffix == <<"I", ".", "j", "p", "g">>

\* str.replace(old, new): every occurrence, left to right
RECURSIVE Replace(_, _, _)
Replace(s, old, new) ==
    IF s = <<>> THEN <<>>
    ELSE IF StartsAt(s, 1, old) THEN new \o Replace(From(s, Len(old) + 1), old, new)
    ELSE <<s[1]>> \o Replace(Tail(s), old, new)

\* what one adapter call did
AdapterResult(result, fetch, file, validated, detail, raised) ==
    [result |-> result, fetch |-> fetch, written |-> file,
     validated |-> validated, detail_nav |-> detail, raised |-> raised,
     caught |-> FALSE]

\* return None
NoResult(validated, detail) ==
    AdapterResult(None, None, None, validated, detail, FALSE)

\* an exception leaves the try block
Raises(validated, detail) ==
    AdapterResult(None, None, None, validated, detail, TRUE)

with_download(url, saved, validated, detail) ==
    AdapterResult(saved.path, url, saved.written, validated, detail, FALSE)

\* return self._download_file(page, url, filename)
fetch_file(url, filename, outcome, validated, detail) ==
    with_download(url, _download_file(url, filename, outcome), validated, detail)

\* an adapter without its except clause
catch_nothing(r) == r

\* except Exception as e: print(...); return None
catch_none(r) ==
    IF r.raised THEN [r EXCEPT !.raised = FALSE, !.caught = TRUE, !.result = None]
    ELSE r

\* site_in while no adapter is called
NoCall ==
    [site |-> "none", target_name |-> <<>>,
     page |-> [raises |-> TRUE, entries |-> <<>>],
     detail |-> [raises |-> TRUE, cover |-> NoElement],
     outcome |-> "ok"]

\* site_out before the call
NoAnswer == [called |-> FALSE, r |-> NoResult(FALSE, FALSE)]

\* the loop over the thumbers from entry k on: found_small_img_src when the
\* loop ends or breaks, whether it returned None on a stale date, and
\* whether a matching entry passed the date check
RECURSIVE fp_scan(_, _, _, _, _)
RECURSIVE fp_entry(_, _, _, _, _, _)
fp_scan(thumbers, k, target_name, today, validated) ==
    IF k > Len(thumbers)
    THEN [src |-> None, stale |-> FALSE, validated |-> validated]
    ELSE fp_entry(thumbers, k, target_name, today, validated, thumbers[k])

fp_entry(thumbers, k, target_name, today, validated, thumber) ==
    IF thumber.name = NoElement
    THEN fp_scan(thumbers, k + 1, target_name, today, validated)
    ELSE IF _normalize_text(thumber.name) # target_name
    THEN fp_scan(thumbers, k + 1, target_name, today, validated)
    ELSE IF _check_date_generic(IF thumber.date.text = None THEN <<>>
                                ELSE thumber.date.text, today) = "False"
    THEN [src |-> None, stale |-> TRUE, validated |-> validated]
    ELSE IF thumber.img # NoElement
    THEN [src |-> thumber.img, stale |-> FALSE, validated |-> TRUE]
    ELSE fp_scan(thumbers, k + 1, target_name, today, TRUE)

\* the statements after the loop
fp_resolve(scan, target_name, outcome) ==
    IF scan.stale THEN NoResult(scan.validated, FALSE)
    ELSE IF scan.src # None /\ scan.src # <<>> /\ EndsWith(scan.src, LowResSuffix)
    THEN fetch_file(urljoin(url_frontpages,
                            Replace(scan.src, LowResSuffix, HighResSuffix)),
                    target_name \o <<"_", "f", "p", ".", "j", "p", "g">>,
                    outcome, scan.validated, FALSE)
    ELSE NoResult(scan.validated, FALSE)

\* the try block of _search_frontpages
fp_try(target_name, page, today, outcome) ==
    IF page.raises THEN Raises(FALSE, FALSE)
    ELSE fp_resolve(fp_scan(page.entries, 1, target_name, today, FALSE),
                    target_name, outcome)

_search_frontpages(target_name, page, today, outcome) ==
    catch_none(fp_try(target_name, page, today, outcome))

\* info.text_content(): the label, then the rest of the block's text
info_text(block) ==
    IF block.date.text = None THEN block.name
    ELSE block.name \o <<" ">> \o block.date.text

\* date_match and not self._check_date_generic(date_match.group(1))
zg_stale(found, today) ==
    found # None /\ _check_date_generic(found, today) = "False"

\* the loop over the blocks from entry k on: found_link_href, and the rest
\* as in fp_scan
RECURSIVE zg_scan(_, _, _, _, _)
RECURSIVE zg_entry(_, _, _, _, _, _)
zg_scan(blocks, k, target_name, today, validated) ==
    IF k > Len(blocks)
    THEN [href |-> None, stale |-> FALSE, validated |-> validated]
    ELSE zg_entry(blocks, k, target_name, today, validated, blocks[k])

zg_entry(blocks, k, target_name, today, validated, block) ==
    IF block.name = NoElement
    THEN zg_scan(blocks, k + 1, target_name, today, validated)
    ELSE IF _normalize_text(block.name) # target_name
    THEN zg_scan(blocks, k + 1, target_name, today, validated)
    ELSE IF zg_stale(date_match(info_text(block)), today)
    THEN [href |-> None, stale |-> TRUE, validated |-> validated]
    ELSE IF block.link # NoElement
    THEN [href |-> block.link, stale |-> FALSE, validated |-> TRUE]
    ELSE zg_scan(blocks, k + 1, target_name, today, TRUE)

\* the detail page: the src of the first image in .newspaper-cover
zg_detail(scan, detail, target_name, outcome) ==
    IF detail.raises THEN Raises(scan.validated, TRUE)
    ELSE IF detail.cover # NoElement /\ detail.cover # None /\ detail.cover # <<>>
    THEN fetch_file(urljoin(url_zougla, detail.cover),
                    target_name \o <<"_", "z", "g", ".", "j", "p", "g">>,
                    outcome, scan.validated, TRUE)
    ELSE NoResult(scan.validated, TRUE)

\* the statements after the loop
zg_resolve(scan, detail, target_name, outcome) ==
    IF scan.stale \/ scan.href = None \/ scan.href = <<>>
    THEN NoResult(scan.validated, FALSE)
    ELSE zg_detail(scan, detail, target_name, outcome)

\* the try block of _search_zougla
zg_try(target_name, page, detail, today, outcome) ==
    IF page.raises THEN Raises(FALSE, FALSE)
    ELSE zg_resolve(zg_scan(page.entries, 1, target_name, today, FALSE),
                    detail, target_name, outcome)

_search_zougla(target_name, page, detail, today, outcome) ==
    catch_none(zg_try(target_name, page, detail, today, outcome))

----------------------------------------------------------------------------
(* generate_pdf.  opens[k] tells whether Image.open(path).convert('RGB') of *)
(* the k-th path succeeds; save_ok whether images[0].save(...) does.        *)

\* pdf before generate_pdf is called
NotAssembled ==
    [called |-> FALSE, opened |-> <<>>, saves |-> <<>>, save_raised |-> FALSE,
     documents |-> <<>>]

\* os.path.join(self.today_dir, f"Papers_{datetime.now().strftime('%Y-%m-%d')}.pdf")
pdf_path(today) == [dir |-> TodayDir, stem |-> "Papers_", date |-> today, ext |-> ".pdf"]

\* a loop without its inner try: the first image that fails to open ends
\* the assembly with no image at all
RECURSIVE open_images_or_abort(_, _, _)
open_images_or_abort(paths, opens, k) ==
    IF k > Len(paths) THEN <<>>
    ELSE IF \E j \in k..Len(paths) : ~opens[j] THEN <<>>
    ELSE <<paths[k]>> \o open_images_or_abort(paths, opens, k + 1)

\* for path in self.downloaded_images, from the k-th path on: images, to
\* which an image that opens is appended and one that does not is skipped
RECURSIVE open_images(_, _, _)
open_images(paths, opens, k) ==
    IF k > Len(paths) THEN <<>>
    ELSE IF opens[k] THEN <<paths[k]>> \o open_images(paths, opens, k + 1)
    ELSE open_images(paths, opens, k + 1)

\* images[0].save(pdf_path, "PDF", ..., save_all=True, append_images=images[1:]):
\* the pages handed to save, first image first
pages_of(images) == <<images[1]>> \o SubSeq(images, 2, Len(images))

\* if images: the one save, and the document it leaves when it does not raise
save_pdf(images, opens, today, save_ok) ==
    IF images = <<>>
    THEN [called |-> TRUE, opened |-> opens, saves |-> <<>>, save_raised |-> FALSE,
          documents |-> <<>>]
    ELSE [called |-> TRUE, opened |-> opens, saves |-> <<pages_of(images)>>,
          save_raised |-> ~save_ok,
          documents |-> IF save_ok
                        THEN <<[path |-> pdf_path(today), pages |-> pages_of(images)]>>
                        ELSE <<>>]

\* generate_pdf: nothing when downloaded_images is empty; a save that raises
\* is caught by the outer except
generate_pdf(paths, opens, today, save_ok) ==
    IF paths = <<>>
    THEN [called |-> TRUE, opened |-> <<>>, saves |-> <<>>, save_raised |-> FALSE,
          documents |-> <<>>]
    ELSE save_pdf(open_images(paths, opens, 1), opens, today, save_ok)

----------------------------------------------------------------------------
(* The clock, and the texts _check_date_generic is applied to *)

Todays ==
    { MkDate(2024, 6, 15), MkDate(2024, 1, 2), MkDate(2024, 2, 29),
      MkDate(2023, 6, 15) }

DayTexts ==
    { <<"1", "5">>, <<"1", "4">>, <<"3", "1">>, <<"2", "9">>, <<"2">>,
      <<"0", "2">>, <<"0">>, <<"3", "2">> }

MonthTexts ==
    { <<"6">>, <<"0", "6">>, <<"1", "2">>, <<"2">>, <<"1">>, <<"0", "1">>,
      <<"1", "3">> }

YearTexts == { <<"2", "0", "2", "4">>, <<"2", "0", "2", "3">> }

Separators == { <<"/">>, <<" ", "/", " ">> }

Prefixes == { <<>>, <<"x", " ">> }

\* a text of shape D/M, and the day and month written in it
YearlessInputs ==
    { [kind |-> "D/M", day |-> ToInt(d), month |-> ToInt(m), year |-> 0,
       text |-> pre \o d \o sep \o m] :
        d \in DayTexts, m \in MonthTexts, sep \in Separators, pre \in Prefixes }

\* a text of shape D/M/YYYY, and the day, month and year written in it
FullInputs ==
    { [kind |-> "D/M/YYYY", day |-> ToInt(d[1]), month |-> ToInt(d[2]),
       year |-> ToInt(d[3]), text |-> pre \o d[1] \o sep \o d[2] \o sep \o d[3]] :
        d \in DayTexts \X MonthTexts \X YearTexts, sep \in Separators,
        pre \in Prefixes }

\* absent, empty, and texts that hold no date pattern
OtherInputs ==
    { [kind |-> "absent", day |-> 0, month |-> 0, year |-> 0, text |-> None],
      [kind |-> "empty", day |-> 0, month |-> 0, year |-> 0, text |-> <<>>],
      [kind |-> "no pattern", day |-> 0, month |-> 0, year |-> 0,
       text |-> <<"a", "b", "c">>],
      [kind |-> "no pattern", day |-> 0, month |-> 0, year |-> 0,
       text |-> <<" ">>],
      [kind |-> "no pattern", day |-> 0, month |-> 0, year |-> 0,
       text |-> <<"1", "5", "-", "6", "-", "2", "0", "2", "4">>],
      [kind |-> "no pattern", day |-> 0, month |-> 0, year |-> 0,
       text |-> <<"2", "0", "2", "4">>] }

DateInputs == YearlessInputs \cup FullInputs \cup OtherInputs

NotCalled == [called |-> FALSE, parsed |-> NoDate, result |-> "pending"]

----------------------------------------------------------------------------
(* The specification of _check_date_generic alone *)

RunIdle ==
    /\ pc = "idle"
    /\ NEWSPAPER_LIST = <<>>
    /\ i = 0
    /\ downloaded_images = <<>>
    /\ image_target = <<>>
    /\ calls = <<>>
    /\ fetches = <<>>
    /\ written = <<>>
    /\ searched = <<>>
    /\ pdf = NotAssembled

DateIdle ==
    /\ date_in = [kind |-> "absent", day |-> 0, month |-> 0, year |-> 0, text |-> None]
    /\ date_out = NotCalled

FileIdle ==
    /\ file_in = [url |-> <<>>, filename |-> <<>>, outcome |-> "ok"]
    /\ file_out = [called |-> FALSE, written |-> None, path |-> None]

NormIdle ==
    /\ norm_in = [x |-> None, y |-> None, differ |-> "nothing"]
    /\ norm_out = [called |-> FALSE, x |-> None, y |-> None]

SiteIdle ==
    /\ site_in = NoCall
    /\ site_out = NoAnswer

InitDate ==
    /\ now \in Todays
    /\ date_in \in DateInputs
    /\ date_out = NotCalled
    /\ RunIdle
    /\ FileIdle
    /\ NormIdle
    /\ SiteIdle

\* one call _check_date_generic(date_in.text)
CheckDate ==
    /\ ~date_out.called
    /\ date_out' =
         [called |-> TRUE,
          parsed |-> IF date_in.text \in {None, <<>>} THEN NoDate
                     ELSE paper_date(date_in.text, now).date,
          result |-> _check_date_generic(date_in.text, now)]
    /\ UNCHANGED <<now, date_in, runVars, fileVars, normVars, siteVars>>

NextDate == CheckDate

SpecDate == InitDate /\ [][NextDate]_vars

----------------------------------------------------------------------------
(* The target lists and the pages the two sites may serve *)

\* the longest NEWSPAPER_LIST of the model
MaxTargets == 2

TaNea == <<"T", "a", " ", "N", "e", "a">>

Tanea == <<"T", "a", "n", "e", "a">>

Avgi == <<"A", "v", "g", "i">>

\* the names of the CSV file; the first two differ by a space alone
Names == {TaNea, Tanea, Avgi}

RECURSIVE ListsOf(_)
ListsOf(n) ==
    IF n = 0 THEN {<<>>}
    ELSE ListsOf(n - 1) \cup
         {Append(l, name) : l \in {m \in ListsOf(n - 1) : Len(m) = n - 1}, name \in Names}

TargetLists == ListsOf(MaxTargets)

RunTodays == { MkDate(2024, 6, 15), MkDate(2024, 6, 14) }

\* date elements: "15 / 6", "14 / 6", "15/06/2024", "14/06/2024", "15/06/2023"
Date15 ==
    [kind |-> "D/M", day |-> 15, month |-> 6, year |-> 0,
     text |-> <<"1", "5", " ", "/", " ", "6">>]

Date14 ==
    [kind |-> "D/M", day |-> 14, month |-> 6, year |-> 0,
     text |-> <<"1", "4", " ", "/", " ", "6">>]

Date15of2024 ==
    [kind |-> "D/M/YYYY", day |-> 15, month |-> 6, year |-> 2024,
     text |-> <<"1", "5", "/", "0", "6", "/", "2", "0", "2", "4">>]

Date14of2024 ==
    [kind |-> "D/M/YYYY", day |-> 14, month |-> 6, year |-> 2024,
     text |-> <<"1", "4", "/", "0", "6", "/", "2", "0", "2", "4">>]

Date15of2023 ==
    [kind |-> "D/M/YYYY", day |-> 15, month |-> 6, year |-> 2023,
     text |-> <<"1", "5", "/", "0", "6", "/", "2", "0", "2", "3">>]

\* an entry of an index page: a .thumber of Frontpages (link is its img src)
\* or a .newspaper-block of Zougla (link is the href of its .front-img a)
Entry(name, date, link) == [name |-> name, date |-> date, link |-> link]

Thumber(name, date, img) == [name |-> name, date |-> date, img |-> img]

Page(entries) == [raises |-> FALSE, entries |-> entries]

BrokenPage == [raises |-> TRUE, entries |-> <<>>]

FrontpagesPages ==
    { Page(<< Thumber(<<"T", "A", " ", "N", "E", "A">>, Date15,
                      <<"/", "t", "n", "3", "0", "0", ".", "j", "p", "g">>),
              Thumber(<<"A", "v", "g", "i", "!">>, Date14of2024,
                      <<"/", "a", "3", "0", "0", ".", "j", "p", "g">>) >>),
      Page(<< Thumber(NoElement, NoDateElement, NoElement),
              Thumber(<<"t", "a", "n", "e", "a">>, Date14,
                      <<"/", "t", "3", "0", "0", ".", "j", "p", "g">>),
              Thumber(<<"T", "a", " ", "N", "e", "a">>, Date15of2023,
                      <<"/", "t", "n", "3", "0", "0", ".", "j", "p", "g">>) >>),
      Page(<< Thumber(<<"t", "a", " ", "n", "e", "a">>, Date15, NoElement),
              Thumber(<<"T", "a", " ", "N", "e", "a">>, Date14,
                      <<"/", "t", "n", "3", "0", "0", ".", "j", "p", "g">>),
              Thumber(<<"A", "V", "G", "I">>, NoDateElement,
                      <<"/", "a", ".", "p", "n", "g">>),
              Thumber(<<"T", "a", "n", "e", "a">>, Date15, None) >>),
      BrokenPage }

ZouglaPages ==
    { Page(<< Entry(<<"T", "a", "n", "e", "a">>, Date15of2024, <<"/", "d", "t">>),
              Entry(<<"A", "V", "G", "I">>, Date14of2024, <<"/", "d", "a">>) >>),
      Page(<< Entry(NoElement, NoDateElement, NoElement),
              Entry(<<"T", "a", " ", "N", "e", "a">>, Date15of2023, <<"/", "d", "n">>),
              Entry(<<"a", "v", "g", "i">>, NoDateElement, NoElement),
              Entry(<<"T", "A", "N", "E", "A">>, Date14of2024, <<"/", "d", "t">>) >>),
      BrokenPage }

DetailPages ==
    { [raises |-> FALSE, cover |-> <<"/", "c", ".", "j", "p", "g">>],
      [raises |-> FALSE, cover |-> NoElement],
      [raises |-> TRUE, cover |-> NoElement] }

\* The date element carries a calendar date other than today: a D/M/YYYY
\* date as written, a D/M date read in the current year.
is_old(date, today) ==
    \/ /\ date.kind = "D/M/YYYY"
       /\ ValidDate(date.year, date.month, date.day)
       /\ MkDate(date.year, date.month, date.day) # today
    \/ /\ date.kind = "D/M"
       /\ ValidDate(today.year, date.month, date.day)
       /\ MkDate(today.year, date.month, date.day) # today

names_target(entry, target_name) ==
    entry.name # NoElement /\ _normalize_text(entry.name) = target_name

\* The index lists the target, and every listing of it carries a date other
\* than today.
listed_old(entries, target_name, today) ==
    /\ \E k \in 1..Len(entries) : names_target(entries[k], target_name)
    /\ \A k \in 1..Len(entries) :
         names_target(entries[k], target_name) => is_old(entries[k].date, today)

----------------------------------------------------------------------------
(* run() *)

Init ==
    /\ now \in RunTodays
    /\ pc = "start"
    /\ NEWSPAPER_LIST \in TargetLists
    /\ i = 0
    /\ downloaded_images = <<>>
    /\ image_target = <<>>
    /\ calls = <<>>
    /\ fetches = <<>>
    /\ written = <<>>
    /\ searched = <<>>
    /\ pdf = NotAssembled
    /\ DateIdle
    /\ FileIdle
    /\ NormIdle
    /\ SiteIdle

\* if not NEWSPAPER_LIST: return; the browser launch chain, which returns
\* when no browser can be launched
Start ==
    /\ pc = "start"
    /\ \E launched \in BOOLEAN :
         /\ pc' = IF NEWSPAPER_LIST = <<>> \/ ~launched THEN "aborted" ELSE "frontpages"
         /\ i' = IF NEWSPAPER_LIST = <<>> \/ ~launched THEN 0 ELSE 1
    /\ UNCHANGED <<now, NEWSPAPER_LIST, downloaded_images, image_target, calls,
                   fetches, written, searched, pdf, dateVars, fileVars, normVars, siteVars>>

\* a run() that searches Zougla whatever Frontpages returned
needs_fallback_always(result) == TRUE

\* if not result
needs_fallback(result) == result = None \/ result = <<>>

\* the next iteration of for name in NEWSPAPER_LIST, or the end of the loop
\* and the call of generate_pdf
NextTarget ==
    /\ i' = i + 1
    /\ pc' = IF i + 1 > Len(NEWSPAPER_LIST) THEN "assemble" ELSE "frontpages"

\* a run() that puts each new image first
PrependImage(result) ==
    /\ downloaded_images' = <<result>> \o downloaded_images
    /\ image_target' = <<i>> \o image_target

\* self.downloaded_images.append(result)
AppendImage(result) ==
    /\ downloaded_images' = Append(downloaded_images, result)
    /\ image_target' = Append(image_target, i)

\* What an adapter call leaves behind it.  calls and fetches start afresh
\* with each target: its search begins with the Frontpages call.
Record(site, r, before, fetched, old) ==
    /\ calls' = Append(before, [target |-> i, site |-> site, result |-> r.result,
                                validated |-> r.validated, listed_old |-> old,
                                detail_nav |-> r.detail_nav, caught |-> r.caught])
    /\ fetches' = IF r.fetch = None THEN fetched
                  ELSE Append(fetched, [target |-> i, site |-> site, url |-> r.fetch])
    /\ written' = IF r.written = None THEN written
                  ELSE Append(written, [target |-> i, site |-> site, name |-> r.written])
    /\ searched' = Append(searched, <<i, site>>)

\* a run() that keeps the Frontpages image and searches Zougla all the same
AfterFrontpagesThenZougla(r, old) ==
    /\ Record("frontpages", r, <<>>, <<>>, old)
    /\ pc' = IF r.raised THEN "crashed" ELSE "zougla"
    /\ i' = i
    /\ IF r.raised \/ needs_fallback(r.result)
       THEN UNCHANGED <<downloaded_images, image_target>>
       ELSE AppendImage(r.result)

\* run() once result = self._search_frontpages(page, norm_name) has returned r
AfterFrontpages(r, old) ==
    /\ Record("frontpages", r, <<>>, <<>>, old)
    /\ IF r.raised
       THEN pc' = "crashed" /\ UNCHANGED <<i, downloaded_images, image_target>>
       ELSE IF needs_fallback(r.result)
       THEN pc' = "zougla" /\ UNCHANGED <<i, downloaded_images, image_target>>
       ELSE AppendImage(r.result) /\ NextTarget

\* a run() that returns at the first target neither site has
AfterZouglaReturnOnMiss(r, old) ==
    /\ Record("zougla", r, calls, fetches, old)
    /\ IF r.raised
       THEN pc' = "crashed" /\ UNCHANGED <<i, downloaded_images, image_target>>
       ELSE IF needs_fallback(r.result)
       THEN pc' = "assemble" /\ UNCHANGED <<i, downloaded_images, image_target>>
       ELSE AppendImage(r.result) /\ NextTarget

\* run() once result = self._search_zougla(page, norm_name) has returned r
AfterZougla(r, old) ==
    /\ Record("zougla", r, calls, fetches, old)
    /\ IF r.raised
       THEN pc' = "crashed" /\ UNCHANGED <<i, downloaded_images, image_target>>
       ELSE IF needs_fallback(r.result)
       THEN NextTarget /\ UNCHANGED <<downloaded_images, image_target>>
       ELSE AppendImage(r.result) /\ NextTarget

SearchFrontpages ==
    /\ pc = "frontpages"
    /\ \E page \in FrontpagesPages, outcome \in Outcomes :
         AfterFrontpages(_search_frontpages(_normalize_text(NEWSPAPER_LIST[i]),
                                            page, now, outcome),
                         listed_old(page.entries, _normalize_text(NEWSPAPER_LIST[i]), now))
    /\ UNCHANGED <<now, NEWSPAPER_LIST, pdf, dateVars, fileVars, normVars, siteVars>>

SearchZougla ==
    /\ pc = "zougla"
    /\ \E page \in ZouglaPages, detail \in DetailPages, outcome \in Outcomes :
         AfterZougla(_search_zougla(_normalize_text(NEWSPAPER_LIST[i]),
                                    page, detail, now, outcome),
                     listed_old(page.entries, _normalize_text(NEWSPAPER_LIST[i]), now))
    /\ UNCHANGED <<now, NEWSPAPER_LIST, pdf, dateVars, fileVars, normVars, siteVars>>

\* browser.close(); self.generate_pdf(); the end of run()
GeneratePdf ==
    /\ pc = "assemble"
    /\ \E opens \in [1..Len(downloaded_images) -> BOOLEAN], save_ok \in BOOLEAN :
         pdf' = generate_pdf(downloaded_images, opens, now, save_ok)
    /\ pc' = "finished"
    /\ UNCHANGED <<now, NEWSPAPER_LIST, i, downloaded_images, image_target, calls,
                   fetches, written, searched, dateVars, fileVars, normVars, siteVars>>

Next == Start \/ SearchFrontpages \/ SearchZougla \/ GeneratePdf

Spec == Init /\ [][Next]_vars

----------------------------------------------------------------------------
(* The specification of _download_file alone *)

\* the longest desired filename of the model
MaxNameLen == 3

\* a letter, a capital, a digit, the three other allowed characters, and
\* a space, a slash, two quotes and an accented letter
FileAlphabet == {"a", "Z", "7", "-", "_", ".", " ", "/", "\"", "'", "U+00E9"}

RECURSIVE TextsOf(_)
TextsOf(n) ==
    IF n = 0 THEN {<<>>}
    ELSE TextsOf(n - 1) \cup
         {Append(t, c) : t \in {u \in TextsOf(n - 1) : Len(u) = n - 1}, c \in FileAlphabet}

Filenames == TextsOf(MaxNameLen)

InitFile ==
    /\ now \in RunTodays
    /\ file_in \in [url : {<<"/", "c", ".", "j", "p", "g">>}, filename : Filenames,
                    outcome : Outcomes]
    /\ file_out = [called |-> FALSE, written |-> None, path |-> None]
    /\ RunIdle
    /\ DateIdle
    /\ NormIdle
    /\ SiteIdle

Downloaded(saved) ==
    [called |-> TRUE, written |-> saved.written, path |-> saved.path]

\* one call _download_file(page, file_in.url, file_in.filename)
Download ==
    /\ ~file_out.called
    /\ file_out' = Downloaded(_download_file(file_in.url, file_in.filename, file_in.outcome))
    /\ UNCHANGED <<now, file_in, runVars, dateVars, normVars, siteVars>>

NextFile == Download

SpecFile == InitFile /\ [][NextFile]_vars

----------------------------------------------------------------------------
(* The specification of _normalize_text alone: it is applied to a text x   *)
(* and to a text y made from x by one change of letter case, of accent or  *)
(* of a character the rule strips.                                         *)

\* the longest text x of the model
MaxTextLen == 3

\* a letter and its capital, an accented letter, the combining acute accent,
\* the sigma and its capital, a space, a punctuation mark and a digit
NormAlphabet == {"a", "A", "U+00E9", "U+0301", "U+03A3", "U+03C3", " ", "!", "7"}

RECURSIVE TextsOver(_, _)
TextsOver(alphabet, n) ==
    IF n = 0 THEN {<<>>}
    ELSE TextsOver(alphabet, n - 1) \cup
         {Append(t, c) : t \in {u \in TextsOver(alphabet, n - 1) : Len(u) = n - 1},
                         c \in alphabet}

NormTexts == TextsOver(NormAlphabet, MaxTextLen)

\* the same letter in the other case
OtherCase(c) ==
    IF c = "a" THEN "A" ELSE IF c = "A" THEN "a"
    ELSE IF c = "U+00E9" THEN "U+00C9" ELSE IF c = "U+00C9" THEN "U+00E9"
    ELSE IF c = "U+03C3" THEN "U+03A3" ELSE IF c = "U+03A3" THEN "U+03C3"
    ELSE c

\* x with c put before position k, and x without its character at position k
Insert(x, k, c) == SubSeq(x, 1, k - 1) \o <<c>> \o SubSeq(x, k, Len(x))

Remove(x, k) == SubSeq(x, 1, k - 1) \o SubSeq(x, k + 1, Len(x))

\* the texts that differ from x by the case of one letter
CaseVariants(x) ==
    {[x EXCEPT ![k] = OtherCase(x[k])] : k \in {j \in DOMAIN x : OtherCase(x[j]) # x[j]}}

\* the texts that differ from x by one accent: a combining acute accent more
\* or less, or an accented letter without its accent
AccentVariants(x) ==
    {Insert(x, k, "U+0301") : k \in 1..(Len(x) + 1)}
    \cup {Remove(x, k) : k \in {j \in DOMAIN x : x[j] = "U+0301"}}
    \cup {[x EXCEPT ![k] = "e"] : k \in {j \in DOMAIN x : x[j] = "U+00E9"}}

\* characters that are no letters, digits, whitespace or accents
StrippedChars == {"!", "/"}

\* the texts that differ from x by one such character
StrippedVariants(x) ==
    {Insert(x, k, c) : k \in 1..(Len(x) + 1), c \in StrippedChars}
    \cup {Remove(x, k) : k \in {j \in DOMAIN x : x[j] \in StrippedChars}}

InitNorm ==
    /\ now \in RunTodays
    /\ \E x \in NormTexts :
         \/ \E y \in CaseVariants(x) : norm_in = [x |-> x, y |-> y, differ |-> "case"]
         \/ \E y \in AccentVariants(x) : norm_in = [x |-> x, y |-> y, differ |-> "accent"]
         \/ \E y \in StrippedVariants(x) : norm_in = [x |-> x, y |-> y, differ |-> "stripped"]
         \/ norm_in = [x |-> x, y |-> None, differ |-> "nothing"]
    /\ norm_out = [called |-> FALSE, x |-> None, y |-> None]
    /\ RunIdle
    /\ DateIdle
    /\ FileIdle
    /\ SiteIdle

\* the calls _normalize_text(norm_in.x) and _normalize_text(norm_in.y)
Normalize ==
    /\ ~norm_out.called
    /\ norm_out' = [called |-> TRUE, x |-> _normalize_text(norm_in.x),
                    y |-> _normalize_text(norm_in.y)]
    /\ UNCHANGED <<now, norm_in, runVars, dateVars, fileVars, siteVars>>

NextNorm == Normalize

SpecNorm == InitNorm /\ [][NextNorm]_vars

----------------------------------------------------------------------------
(* The specification of one adapter call: _search_frontpages on an index   *)
(* page of up to MaxEntries thumbers, or _search_zougla on an index page   *)
(* and a detail page with up to MaxEntries images.                         *)

\* the most entries of an index page, and images of a detail page
MaxEntries == 2

\* the target of the call: _normalize_text("Ta Nea")
SiteTarget == <<"t", "a", " ", "n", "e", "a">>

\* img of a thumber: no img element, an img without src, and the src texts
\* "/t300.jpg", "/300.jpgx300.jpg", "/t.png", "/300.jpg.png"
ImageRefs ==
    { NoElement, None,
      <<"/", "t", "3", "0", "0", ".", "j", "p", "g">>,
      <<"/", "3", "0", "0", ".", "j", "p", "g", "x", "3", "0", "0", ".", "j", "p", "g">>,
      <<"/", "t", ".", "p", "n", "g">>,
      <<"/", "3", "0", "0", ".", "j", "p", "g", ".", "p", "n", "g">> }

\* the thumbers: labels "TA NEA" and "Avgi", or no label at all
Thumbers ==
    { Thumber(name, date, img) :
        name \in {<<"T", "A", " ", "N", "E", "A">>, Avgi},
        date \in {Date15, Date14, NoDateElement},
        img \in ImageRefs }
    \cup { Thumber(NoElement, NoDateElement, NoElement) }

RECURSIVE SeqsOver(_, _)
SeqsOver(items, n) ==
    IF n = 0 THEN {<<>>}
    ELSE SeqsOver(items, n - 1) \cup
         {Append(t, c) : t \in {u \in SeqsOver(items, n - 1) : Len(u) = n - 1},
                         c \in items}

SiteFrontpagesPages == {Page(entries) : entries \in SeqsOver(Thumbers, MaxEntries)} \cup {BrokenPage}

\* the src of the img elements of a detail page: none, "TA NEA", "/x.jpg"; the
\* src of its cover image: no element, no src, "/c.jpg", the relative
\* "c.jpg", " http://h/c" of another scheme and "HTTPS://h/c"
DetailImages ==
    { None, <<"T", "A", " ", "N", "E", "A">>, <<"/", "x", ".", "j", "p", "g">> }

SiteDetailPages ==
    { [raises |-> FALSE, cover |-> cover, images |-> images] :
        cover \in {NoElement, None, <<"/", "c", ".", "j", "p", "g">>,
                   <<"c", ".", "j", "p", "g">>,
                   <<" ", "h", "t", "t", "p", ":", "/", "/", "h", "/", "c">>,
                   <<"H", "T", "T", "P", "S", ":", "/", "/", "h", "/", "c">>},
        images \in SeqsOver(DetailImages, MaxEntries) }
    \cup { [raises |-> TRUE, cover |-> NoElement, images |-> <<>>] }

SiteZouglaPages ==
    { Page(<< Entry(<<"T", "a", " ", "N", "e", "a">>, Date15of2024, <<"/", "d", "n">>) >>),
      Page(<< Entry(Avgi, Date15of2024, <<"/", "d", "a">>),
              Entry(<<"T", "A", " ", "N", "E", "A">>, NoDateElement, <<"/", "d", "n">>) >>),
      Page(<< Entry(<<"T", "a", " ", "N", "e", "a">>, Date14of2024, <<"/", "d", "n">>) >>),
      Page(<< Entry(<<"T", "a", " ", "N", "e", "a">>, Date15of2024, NoElement) >>),
      BrokenPage }

InitSite ==
    /\ now \in RunTodays
    /\ \/ site_in \in [site : {"frontpages"}, target_name : {SiteTarget},
                        page : SiteFrontpagesPages, detail : {NoCall.detail},
                        outcome : Outcomes]
       \/ site_in \in [site : {"zougla"}, target_name : {SiteTarget},
                        page : SiteZouglaPages, detail : SiteDetailPages,
                        outcome : Outcomes]
    /\ site_out = NoAnswer
    /\ RunIdle
    /\ DateIdle
    /\ FileIdle
    /\ NormIdle

\* one call _search_frontpages(page, target_name)
CallFrontpages ==
    /\ ~site_out.called
    /\ site_in.site = "frontpages"
    /\ site_out' = [called |-> TRUE,
                    r |-> _search_frontpages(site_in.target_name, site_in.page, now,
                                             site_in.outcome)]
    /\ UNCHANGED <<now, site_in, runVars, dateVars, fileVars, normVars>>

\* one call _search_zougla(page, target_name)
CallZougla ==
    /\ ~site_out.called
    /\ site_in.site = "zougla"
    /\ site_out' = [called |-> TRUE,
                    r |-> _search_zougla(site_in.target_name, site_in.page, site_in.detail,
                                         now, site_in.outcome)]
    /\ UNCHANGED <<now, site_in, runVars, dateVars, fileVars, normVars>>

NextSite == CallFrontpages \/ CallZougla

SpecSite == InitSite /\ [][NextSite]_vars

----------------------------------------------------------------------------
(* Properties of run() *)

FrontpagesCalls == {k \in DOMAIN calls : calls[k].site = "frontpages"}

ZouglaCalls == {k \in DOMAIN calls : calls[k].site = "zougla"}

\* the list positions that have an entry in downloaded_images
Saved == {image_target[p] : p \in DOMAIN image_target}

\* C1 (as claimed): a target whose listing is matched by name and passes the
\* date validation in the Frontpages adapter is never searched on Zougla.
C1_ValidatedNeverSearchedOnZougla ==
    \A k \in FrontpagesCalls :
        calls[k].validated => ZouglaCalls = {} /\ ~(pc = "zougla" /\ i = calls[k].target)

\* C1 (amended): a target for which the Frontpages adapter returns a saved
\* path is never searched on Zougla.
C1_AcceptedNeverSearchedOnZougla ==
    \A k \in FrontpagesCalls :
        calls[k].result # None =>
            ZouglaCalls = {} /\ ~(pc = "zougla" /\ i = calls[k].target)

\* Frontpages returned a path, and run() has gone on to the next target or ended.
C1_Witness ==
    /\ pc \in {"frontpages", "finished"}
    /\ \E k \in FrontpagesCalls :
         calls[k].validated /\ calls[k].result # None /\ i > calls[k].target

\* the path _download_file returns for a target found on a site
ImagePath(name, tag) ==
    save_path(clean_name(_normalize_text(name) \o <<"_">> \o tag \o <<".", "j", "p", "g">>))

\* C2: downloaded_images is ordered by input target order: an image that
\* precedes another was saved for an earlier target of the list, whichever
\* site supplied it, and each entry is the path of its target's file.
C2_ImagesInTargetOrder ==
    /\ Len(image_target) = Len(downloaded_images)
    /\ \A p, q \in DOMAIN image_target : p < q => image_target[p] < image_target[q]
    /\ \A p \in DOMAIN downloaded_images :
         downloaded_images[p] \in
             { ImagePath(NEWSPAPER_LIST[image_target[p]], <<"f", "p">>),
               ImagePath(NEWSPAPER_LIST[image_target[p]], <<"z", "g">>) }

\* run() has ended with two images, the first from Zougla, the second from
\* Frontpages.
C2_Witness ==
    /\ pc = "finished"
    /\ Len(downloaded_images) = 2
    /\ EndsWith(downloaded_images[1], <<"_", "z", "g", ".", "j", "p", "g">>)
    /\ EndsWith(downloaded_images[2], <<"_", "f", "p", ".", "j", "p", "g">>)

\* C3 (as claimed): downloaded_images holds at most one entry per target name.
C3_OneImagePerName ==
    \A p, q \in DOMAIN image_target :
        p # q => NEWSPAPER_LIST[image_target[p]] # NEWSPAPER_LIST[image_target[q]]

\* C3 (amended): downloaded_images holds at most one entry per position of
\* the target list; a position is searched once on Frontpages and at most
\* once on Zougla, and once an adapter accepted it or both returned no
\* result the loop is past it, so that no adapter is invoked for it again.
C3_OneImagePerListEntry ==
    /\ \A p, q \in DOMAIN image_target : p # q => image_target[p] # image_target[q]
    /\ Cardinality(FrontpagesCalls) <= 1 /\ Cardinality(ZouglaCalls) <= 1
    /\ \A k \in DOMAIN calls :
         /\ calls[k].target = calls[1].target
         /\ calls[k].target <= i
         /\ (calls[k].result # None \/ calls[k].site = "zougla") => i > calls[k].target
    /\ \A t \in Saved : t < i

\* a list that names one newspaper twice, both occurrences saved
C3_Witness ==
    /\ pc = "finished"
    /\ Len(image_target) = 2
    /\ NEWSPAPER_LIST[image_target[1]] = NEWSPAPER_LIST[image_target[2]]

\* C4: whenever the Frontpages adapter returns no result the Zougla adapter
\* is invoked exactly once for the target; if it returns no result either,
\* nothing is appended for the target; no exception reaches run().
C4_FallbackExactlyOnce ==
    /\ pc # "crashed"
    /\ Cardinality(ZouglaCalls) <= 1
    /\ \A k \in FrontpagesCalls :
         calls[k].result = None =>
            \/ pc = "zougla" /\ i = calls[k].target /\ ZouglaCalls = {}
            \/ /\ i > calls[k].target
               /\ Cardinality(ZouglaCalls) = 1
               /\ \A z \in ZouglaCalls :
                    /\ calls[z].target = calls[k].target
                    /\ calls[z].result = None => calls[k].target \notin Saved
                    /\ calls[z].result # None => calls[k].target \in Saved

\* Frontpages raised, Zougla found nothing, and the target was skipped.
C4_Witness ==
    /\ pc = "finished"
    /\ \E k \in FrontpagesCalls, z \in ZouglaCalls :
         /\ calls[k].caught
         /\ calls[z].result = None
         /\ calls[k].target \notin Saved

\* C5: a target whose listings carry a date other than today on both
\* indexes is skipped: no fetch, no file, no entry in downloaded_images, and
\* no navigation to the Zougla detail page.
C5_OldOnBothSitesIsSkipped ==
    \A k \in FrontpagesCalls, z \in ZouglaCalls :
        calls[k].listed_old /\ calls[z].listed_old =>
            /\ fetches = <<>>
            /\ ~calls[z].detail_nav
            /\ calls[k].target \notin Saved
            /\ \A w \in DOMAIN written : written[w].target # calls[k].target

\* C10: no file of the output directory is written a second time.
C10_NoFileWrittenTwice ==
    \A p, q \in DOMAIN written : p # q => written[p].name # written[q].name

\* how often list position t was handed to the adapter of a site
TimesSearched(t, site) ==
    Cardinality({k \in DOMAIN searched : searched[k] = <<t, site>>})

\* downloaded_images holds the Frontpages image of list position t
FrontpagesImage(t) ==
    \E p \in DOMAIN image_target :
        /\ image_target[p] = t
        /\ EndsWith(downloaded_images[p], <<"_", "f", "p", ".", "j", "p", "g">>)

\* run() is past list position t
Processed(t) == t < i

\* Every list position the loop is past was searched once on Frontpages and,
\* when Frontpages gave no image, once on Zougla; no other was searched on
\* Zougla, none ahead of the loop was searched at all; the searches follow
\* the list order; a caught failure leaves the loop at its target's
\* Zougla search or past the target; the loop ends only past the last target.
C11_EveryTargetOnce ==
    /\ pc # "crashed"
    /\ \A t \in 1..Len(NEWSPAPER_LIST) :
         /\ TimesSearched(t, "frontpages") =
                (IF Processed(t) \/ (t = i /\ pc = "zougla") THEN 1 ELSE 0)
         /\ TimesSearched(t, "zougla") =
                (IF Processed(t) /\ ~FrontpagesImage(t) THEN 1 ELSE 0)
    /\ \A a, b \in DOMAIN searched :
         a < b => \/ searched[a][1] < searched[b][1]
                  \/ /\ searched[a][1] = searched[b][1]
                     /\ searched[a][2] = "frontpages"
                     /\ searched[b][2] = "zougla"
    /\ \A k \in DOMAIN calls :
         calls[k].caught =>
            \/ pc = "zougla" /\ i = calls[k].target /\ calls[k].site = "frontpages"
            \/ Processed(calls[k].target)
    /\ pc \in {"assemble", "finished"} => i = Len(NEWSPAPER_LIST) + 1

\* the most steps run() has yet to take: two searches for each target still
\* to come, the rest of the current target, and generate_pdf
Remaining ==
    CASE pc = "start" -> 2 * Len(NEWSPAPER_LIST) + 2
      [] pc = "frontpages" -> 2 * (Len(NEWSPAPER_LIST) - i) + 3
      [] pc = "zougla" -> 2 * (Len(NEWSPAPER_LIST) - i) + 2
      [] pc = "assemble" -> 1
      [] OTHER -> 0

\* C11: once the list is loaded and a browser is launched, run() searches
\* every target of the list exactly once, in order, a caught failure at one
\* target notwithstanding, and then ends: every step of run() lowers the
\* number of steps it has yet to take, which is never negative.
C11_EveryTargetOnceThenEnds ==
    /\ [](C11_EveryTargetOnce /\ Remaining >= 0)
    /\ [][Remaining' < Remaining]_vars

\* The Frontpages download of the first target failed while the file was
\* being written, and run() went on to the second target, saved its image
\* and ended.
C11_Witness ==
    /\ pc = "finished"
    /\ Len(NEWSPAPER_LIST) = 2
    /\ \E w \in DOMAIN written : written[w].target = 1 /\ written[w].site = "frontpages"
    /\ ~FrontpagesImage(1)
    /\ TimesSearched(2, "frontpages") = 1
    /\ 2 \in Saved

----------------------------------------------------------------------------
(* Properties of generate_pdf *)

\* the positions of downloaded_images whose image opened
Opened == {k \in DOMAIN downloaded_images : pdf.opened[k]}

\* the n-th of them, in the order of downloaded_images
NthOpened(n) == CHOOSE k \in Opened : Cardinality({j \in Opened : j < k}) = n - 1

\* pages holds the images that opened, each once, in the order of downloaded_images
PagesAreOpened(pages) ==
    /\ Len(pages) = Cardinality(Opened)
    /\ \A n \in 1..Len(pages) : pages[n] = downloaded_images[NthOpened(n)]

\* C12: generate_pdf writes no document when downloaded_images is empty or
\* no image opens; otherwise it issues exactly one save, of a document whose
\* pages are the images that opened, one page each, in the order of
\* downloaded_images, an image that does not open being skipped; unless
\* that save raises, the document is the one file left.
C12_DocumentOfOpenedImages ==
    pdf.called =>
        /\ pc = "finished"
        /\ Len(pdf.opened) = Len(downloaded_images)
        /\ Opened = {} => pdf.saves = <<>> /\ pdf.documents = <<>>
        /\ Opened # {} =>
              /\ Len(pdf.saves) = 1
              /\ PagesAreOpened(pdf.saves[1])
              /\ pdf.save_raised => pdf.documents = <<>>
              /\ ~pdf.save_raised =>
                    /\ Len(pdf.documents) = 1
                    /\ pdf.documents[1].path = pdf_path(now)
                    /\ PagesAreOpened(pdf.documents[1].pages)

\* The first of two images did not open: the document has one page, the
\* second image.
C12_Witness ==
    /\ pdf.called
    /\ Len(downloaded_images) = 2
    /\ pdf.opened = <<FALSE, TRUE>>
    /\ Len(pdf.documents) = 1
    /\ pdf.documents[1].pages = <<downloaded_images[2]>>

----------------------------------------------------------------------------
(* Properties of _search_frontpages *)

\* the entries of the index page whose normalized label equals the target
Matches ==
    {k \in DOMAIN site_in.page.entries :
        names_target(site_in.page.entries[k], site_in.target_name)}

\* the first of them
FirstMatch == site_in.page.entries[CHOOSE k \in Matches : \A j \in Matches : k <= j]

\* _search_frontpages has answered for an index page that lists the target
FrontpagesAnswered ==
    /\ site_out.called
    /\ site_in.site = "frontpages"
    /\ ~site_in.page.raises
    /\ Matches # {}

\* the date fragment of the first matching entry fails the validation
FirstMatchIsStale ==
    _check_date_generic(IF FirstMatch.date.text = None THEN <<>> ELSE FirstMatch.date.text,
                        now) = "False"

\* C14: the answer of the Frontpages adapter depends only on the first entry
\* whose normalized label equals the target: it is the answer for a page
\* that holds this entry alone; when its date fails the validation, or when
\* it has no image element, there is no result and no fetch, whatever the
\* later entries are.
C14_OnlyFirstMatchCounts ==
    FrontpagesAnswered =>
        /\ site_out.r = _search_frontpages(site_in.target_name, Page(<<FirstMatch>>),
                                           now, site_in.outcome)
        /\ FirstMatchIsStale => site_out.r.result = None /\ site_out.r.fetch = None
        /\ FirstMatch.img = NoElement =>
              site_out.r.result = None /\ site_out.r.fetch = None

\* the index page lists the target once, with a date that passes the
\* validation and an image element that has a src
OneValidMatch ==
    /\ FrontpagesAnswered
    /\ Cardinality(Matches) = 1
    /\ ~FirstMatchIsStale
    /\ FirstMatch.img \notin {NoElement, None}

\* ref without its last n characters
WithoutLast(ref, n) == SubSeq(ref, 1, Len(ref) - n)

\* C15: a fetch is issued if and only if the preview reference of the
\* matched entry ends with '300.jpg'; the URL fetched is then the reference
\* with that trailing '300.jpg' replaced by 'I.jpg' and nothing else
\* changed; otherwise there is no fetch and no result.
C15_OnlyTheSuffixIsRewritten ==
    OneValidMatch =>
        /\ site_out.r.fetch # None <=> EndsWith(FirstMatch.img, LowResSuffix)
        /\ site_out.r.fetch # None =>
              site_out.r.fetch =
                  urljoin(url_frontpages,
                          WithoutLast(FirstMatch.img, Len(LowResSuffix))
                              \o HighResSuffix)
        /\ site_out.r.fetch = None => site_out.r.result = None

----------------------------------------------------------------------------
(* Properties of _search_zougla *)

\* _search_zougla has answered after it reached the detail page, which loaded
DetailReached ==
    /\ site_out.called
    /\ site_in.site = "zougla"
    /\ site_out.r.detail_nav
    /\ ~site_in.detail.raises

\* the low-resolution markers: '-sm.', '300x', '150x'
LowResMarkers ==
    { <<"-", "s", "m", ".">>, <<"3", "0", "0", "x">>, <<"1", "5", "0", "x">> }

\* the text s holds the text x
Contains(s, x) == \E p \in 1..Len(s) : StartsAt(s, p, x)

\* strategy (b) accepts an image: its normalized src equals the target and
\* its src holds no low-resolution marker
ScanAccepts(src, target_name) ==
    /\ src # None /\ src # <<>>
    /\ _normalize_text(src) = target_name
    /\ \A x \in LowResMarkers : ~Contains(Lower(src), x)

\* strategy (b): the src of the first image it accepts, or None
ScanImages(images, target_name) ==
    IF \E k \in DOMAIN images : ScanAccepts(images[k], target_name)
    THEN images[CHOOSE k \in DOMAIN images :
                    /\ ScanAccepts(images[k], target_name)
                    /\ \A j \in 1..(k - 1) : ~ScanAccepts(images[j], target_name)]
    ELSE None

\* strategy (a), the src of the image in the cover container, then (b)
TwoStrategies(detail, target_name) ==
    IF detail.cover # NoElement /\ detail.cover # None /\ detail.cover # <<>>
    THEN detail.cover
    ELSE ScanImages(detail.images, target_name)

\* the URL fetched for a reference, None when there is no reference
UrlOf(base, ref) == IF ref = None THEN None ELSE urljoin(base, ref)

\* C16: on the detail page the reference is the src of the cover image or,
\* when there is none, the src of the first image whose normalized src
\* equals the target and holds no low-resolution marker; that reference is
\* fetched, and there is no result from resolution only when neither
\* strategy yields one.
C16_CoverThenScan ==
    DetailReached =>
        site_out.r.fetch =
            UrlOf(url_zougla, TwoStrategies(site_in.detail, site_in.target_name))

----------------------------------------------------------------------------
(* Properties of _normalize_text *)

\* lowercase Latin letters, Greek letters, digits and whitespace
NameChars ==
    LowerSet \cup DigitSet \cup {" ", "\t", "\n"} \cup {"U+03B1", "U+03C3", "U+03C2"}

\* only those characters, and no whitespace at either end
IsNormalized(t) ==
    /\ \A k \in DOMAIN t : t[k] \in NameChars
    /\ t # <<>> => ~IsSpace(t[1]) /\ ~IsSpace(t[Len(t)])

\* C13: two texts that differ only by letter case, by an accent or by a
\* character the rule strips normalize to the same text; the result holds
\* only lowercase Latin letters, Greek letters, digits and whitespace, with
\* no whitespace at either end; absent or empty input gives the empty text.
C13_EquivalentTextsNormalizeAlike ==
    norm_out.called =>
        /\ norm_in.differ \in {"case", "accent", "stripped"} => norm_out.x = norm_out.y
        /\ IsNormalized(norm_out.x)
        /\ IsNormalized(norm_out.y)
        /\ norm_in.x = <<>> => norm_out.x = <<>>
        /\ norm_in.y = None => norm_out.y = <<>>

----------------------------------------------------------------------------
(* Properties of _check_date_generic *)

\* the date written in a D/M/YYYY input
FullDate == MkDate(date_in.year, date_in.month, date_in.day)

\* the year a D/M input is read in
ReadYear == IF date_in.month = 12 /\ now.month = 1 THEN now.year - 1 ELSE now.year

\* the input holds a valid calendar date
InputIsDate ==
    \/ date_in.kind = "D/M/YYYY" /\ ValidDate(date_in.year, date_in.month, date_in.day)
    \/ date_in.kind = "D/M" /\ ValidDate(ReadYear, date_in.month, date_in.day)

\* that date
InputDate ==
    IF date_in.kind = "D/M/YYYY" THEN FullDate
    ELSE MkDate(ReadYear, date_in.month, date_in.day)

\* C6: for a D/M/YYYY input that is a valid calendar date the result is
\* true if and only if day, month and year all equal today's.
C6_FullDateTrueIffToday ==
    (date_out.called /\ date_in.kind = "D/M/YYYY" /\ InputIsDate) =>
        (date_out.result = "True" <=> FullDate = now)

\* C7: a D/M input is read as that day of the current year, or of the year
\* before when the month is December and today is in January; the result is
\* true iff that date is today, so false for every December date in January.
C7_YearlessRollback ==
    (date_out.called /\ date_in.kind = "D/M" /\ InputIsDate) =>
        /\ date_out.parsed = InputDate
        /\ date_out.result = (IF InputDate = now THEN "True" ELSE "False")
        /\ (date_in.month = 12 /\ now.month = 1) =>
               date_out.parsed.year = now.year - 1 /\ date_out.result = "False"

\* "31/12" on 2024-01-02 is read as 2023-12-31 and is not today.
C7_Witness ==
    /\ date_out.called
    /\ date_in.text = <<"3", "1", "/", "1", "2">>
    /\ now = MkDate(2024, 1, 2)
    /\ date_out.parsed = MkDate(2023, 12, 31)
    /\ date_out.result = "False"

\* C8: the call never raises; it returns false only for an input that holds
\* a valid calendar date other than today, and true for absent or empty
\* input, input without a date pattern, and digits that form no valid date.
C8_FalseOnlyForAnotherDate ==
    date_out.called =>
        /\ date_out.result \in {"True", "False"}
        /\ date_out.result = "False" => InputIsDate /\ InputDate # now
        /\ ~InputIsDate => date_out.result = "True"

----------------------------------------------------------------------------
(* Properties of _download_file *)

\* letters, digits, hyphen, underscore and period
AllowedChars == LowerSet \cup UpperSet \cup OtherLetters \cup DigitSet \cup {"-", "_", "."}

\* the last component of a path
RECURSIVE BaseName(_)
BaseName(path) ==
    IF path = <<>> \/ path[Len(path)] = "/" THEN <<>>
    ELSE Append(BaseName(SubSeq(path, 1, Len(path) - 1)), path[Len(path)])

OnlyAllowed(name) == \A k \in DOMAIN name : name[k] \in AllowedChars

\* C9: the name of the file written and the last component of the returned
\* path hold only letters, digits, hyphen, underscore and period.
C9_OnlyAllowedChars ==
    file_out.called =>
        /\ file_out.written # None => OnlyAllowed(file_out.written)
        /\ file_out.path # None =>
              OnlyAllowed(BaseName(file_out.path)) /\ BaseName(file_out.path) = file_out.written

\* a desired filename with a space, a slash or a quote was written
C9_Witness ==
    /\ file_out.called
    /\ file_out.path # None
    /\ \E k \in DOMAIN file_in.filename : file_in.filename[k] \in {" ", "/", "\"", "'"}

====
